---- MODULE Spec2Model ----
(***************************************************************************)
(* Model of the "t1" execution extension of bin/reth/src/main.rs: the      *)
(* notification loop `exex`, the extractor                                 *)
(* `decode_chain_into_rollup_events`, and the L1 notifier `notify_l1` /    *)
(* `StateRootContract::update_state_root`.                                 *)
(***************************************************************************)
EXTENDS Integers, Sequences, FiniteSets, TLC

\* ------------------------------------------------------------------ bounds

\* SpecExtract: the segment handed to the extractor has at most MaxBlocks
\* blocks, MaxTxs transactions and MaxLogs logs in total.
MaxBlocks == 2
MaxTxs == 2
MaxLogs == 3

\* ------------------------------------------------------------ basic values

\* Option<T>
NoneV == [some |-> FALSE]
Some(v) == [some |-> TRUE, val |-> v]

Min(a, b) == IF a <= b THEN a ELSE b

RECURSIVE FlatMap(_, _)
\* Iterator::flat_map over a sequence: F(s[1]) \o F(s[2]) \o ...
FlatMap(F(_), s) ==
    IF s = <<>> THEN <<>> ELSE F(Head(s)) \o FlatMap(F, Tail(s))

\* Log addresses: the Counter contract and some other contract.
CounterAddress == "0xC0"
OtherAddress == "0x0A"
Addresses == {CounterAddress, OtherAddress}

\* topic0 of the Counter contract's only event, and of an unrelated event.
IncrementedSig == "Incremented"
TransferSig == "Transfer"
\* The topics a log may carry: the event's signature or another event's.
LogTopics == {<<IncrementedSig>>, <<TransferSig>>}

\* The two forks a block may belong to; a block's hash and state root are
\* determined by its number and fork.
Forks == {"a", "b"}
BlockHash(number, fork) == <<"hash", number, fork>>
StateRoot(number, fork) == <<"root", number, fork>>

\* ----------------------------------------------------- building a segment

\* A log; its data names the place it was emitted: block number, position
\* of the emitting transaction in the block, position in the receipt.
Log(address, topics, number, txIdx, logIdx) ==
    [address |-> address, topics |-> topics, data |-> <<number, txIdx, logIdx>>]

\* The transaction at position i of block `number`.
Tx(number, i) == [block |-> number, index |-> i]

\* A sealed block with n transactions.
Block(number, fork, n) ==
    [number |-> number,
     hash |-> BlockHash(number, fork),
     state_root |-> StateRoot(number, fork),
     transactions |-> [i \in 1..n |-> Tx(number, i)]]

\* A block "shape": one entry per transaction, NoneV (receipt absent) or
\* Some(sequence of <<address, topics>>), the logs of its receipt.
ReceiptsOf(number, shape) ==
    [i \in 1..Len(shape) |->
        IF shape[i].some
        THEN Some([logs |-> [j \in 1..Len(shape[i].val) |->
                       Log(shape[i].val[j][1], shape[i].val[j][2], number, i, j)]])
        ELSE NoneV]

\* The chain segment of the given block shapes, numbered first, first+1, ...
\* Chain keeps its blocks in number order and, per block, one
\* Option<Receipt> per transaction.
MkChain(first, fork, shapes) ==
    [blocks |-> [b \in 1..Len(shapes) |-> Block(first + b - 1, fork, Len(shapes[b]))],
     receipts |-> [b \in 1..Len(shapes) |-> ReceiptsOf(first + b - 1, shapes[b])]]

\* ------------------------------------------------------- Chain accessors

\* Chain::tip: the last block of the segment.
tip(chain) == chain.blocks[Len(chain.blocks)]

\* SealedBlock::num_hash
num_hash(block) == [number |-> block.number, hash |-> block.hash]

\* Chain::blocks_and_receipts: (block, receipts of the block) in block order.
blocks_and_receipts(chain) ==
    [b \in 1..Len(chain.blocks) |-> <<chain.blocks[b], chain.receipts[b]>>]

\* ------------------------------------------------------------- extraction

\* CounterContractEvents::decode_raw_log(topics, data, validate = true):
\* Ok(Incremented) when topic0 is the event's signature, Err otherwise.
decode_raw_log(topics, data) ==
    IF Len(topics) >= 1 /\ topics[1] = IncrementedSig
    THEN [ok |-> TRUE, event |-> [name |-> "Incremented", data |-> data]]
    ELSE [ok |-> FALSE]

\* receipts.iter().flatten(): the receipts that are present, in order.
FlattenReceipts(receipts) ==
    LET present == SelectSeq(receipts, LAMBDA r : r.some)
    IN  [k \in 1..Len(present) |-> present[k].val]

\* block.body.transactions.iter().zip(receipts.iter().flatten())
\*     .map(move |(tx, receipt)| (block, tx, receipt))
TxReceiptPairs(block, receipts) ==
    LET flat == FlattenReceipts(receipts)
        n == Min(Len(block.transactions), Len(flat))
    IN  [k \in 1..n |->
            [block |-> block, tx |-> block.transactions[k], receipt |-> flat[k]]]

\* CounterLogs without its address filter.
CounterLogs_NoFilter(p, counter_contract_address) ==
    [k \in 1..Len(p.receipt.logs) |->
        [block |-> p.block, tx |-> p.tx, log |-> p.receipt.logs[k]]]

\* receipt.logs.iter().filter(|log| log.address == counter_contract_address)
\*     .map(move |log| (block, tx, log))
CounterLogs(p, counter_contract_address) ==
    LET kept == SelectSeq(p.receipt.logs,
                          LAMBDA log : log.address = counter_contract_address)
    IN  [k \in 1..Len(kept) |-> [block |-> p.block, tx |-> p.tx, log |-> kept[k]]]

RECURSIVE OkPrefix(_)
OkPrefix(logs) ==
    IF logs = <<>> \/ ~decode_raw_log(Head(logs).log.topics, Head(logs).log.data).ok
    THEN <<>>
    ELSE <<Head(logs)>> \o OkPrefix(Tail(logs))

\* DecodeLogs giving up at the first log that fails to decode.
DecodeLogs_StopAtFirstErr(logs) ==
    LET ok == OkPrefix(logs)
    IN  [k \in 1..Len(ok) |->
            [block |-> ok[k].block, tx |-> ok[k].tx,
             event |-> decode_raw_log(ok[k].log.topics, ok[k].log.data).event]]

\* filter_map(|(block, tx, log)| decode_raw_log(..).ok().map(|event| (block, tx, event)))
DecodeLogs(logs) ==
    LET ok == SelectSeq(logs, LAMBDA l : decode_raw_log(l.log.topics, l.log.data).ok)
    IN  [k \in 1..Len(ok) |->
            [block |-> ok[k].block, tx |-> ok[k].tx,
             event |-> decode_raw_log(ok[k].log.topics, ok[k].log.data).event]]

\* Reverse(s): the sequence s back to front.
Reverse(s) == [k \in 1..Len(s) |-> s[Len(s) + 1 - k]]

\* decode_chain_into_rollup_events walking the blocks from the tip down.
decode_chain_into_rollup_events_TipFirst(chain, counter_contract_address) ==
    LET pairs == FlatMap(LAMBDA br : TxReceiptPairs(br[1], br[2]),
                         Reverse(blocks_and_receipts(chain)))
        logs == FlatMap(LAMBDA p : CounterLogs(p, counter_contract_address), pairs)
    IN  DecodeLogs(logs)

\* decode_chain_into_rollup_events, after the target address has been read.
decode_chain_into_rollup_events(chain, counter_contract_address) ==
    LET pairs == FlatMap(LAMBDA br : TxReceiptPairs(br[1], br[2]),
                         blocks_and_receipts(chain))
        logs == FlatMap(LAMBDA p : CounterLogs(p, counter_contract_address), pairs)
    IN  DecodeLogs(logs)

\* ---------------------------------------------------------------- state

VARIABLES
    env,          \* the process environment (never written by the program)
    pc,           \* where the exex task stands
    notification, \* the notification being processed (the last one received)
    events,       \* notify_l1: the extracted events still to be handled
    calls,        \* changeStateRoot calls issued for this notification
    acks,         \* FinishedHeight events delivered to the host, in order
    commits,      \* tips of the ChainCommitted notifications received, in order
    acksThis,     \* FinishedHeight events delivered for this notification
    ackFailed,    \* ctx.events.send has returned an error
    nDelivered,   \* notifications the stream has yielded
    nFinished,    \* loop iterations completed
    nCalls,       \* changeStateRoot calls issued since start
    xshapes,      \* SpecExtract: the segment under construction
    xtarget,      \* SpecExtract: the target contract address
    xevents,      \* SpecExtract: the extractor's result
    xpc           \* SpecExtract: "build" or "done"

loopvars == <<env, pc, notification, events, calls, acks, commits, acksThis,
              ackFailed, nDelivered, nFinished, nCalls>>
xvars == <<xshapes, xtarget, xevents, xpc>>
vars == <<loopvars, xvars>>

\* ------------------------------------------------- SpecExtract: extractor

\* The segment built so far.
xchain == MkChain(1, "a", xshapes)

TotalTxs(shapes) == Len(FlatMap(LAMBDA s : s, shapes))
TotalLogs(shapes) ==
    Len(FlatMap(LAMBDA r : IF r.some THEN r.val ELSE <<>>,
                FlatMap(LAMBDA s : s, shapes)))

\* The loop's state while only the extractor is exercised.
LoopIdle ==
    /\ env = [v \in {} |-> NoneV]
    /\ pc = "idle"
    /\ notification = [kind |-> "none"]
    /\ events = <<>>
    /\ calls = <<>>
    /\ acks = <<>>
    /\ commits = <<>>
    /\ acksThis = 0
    /\ ackFailed = FALSE
    /\ nDelivered = 0
    /\ nFinished = 0
    /\ nCalls = 0

XInit ==
    /\ xshapes = <<>>
    /\ xtarget \in Addresses
    /\ xevents = <<>>
    /\ xpc = "build"
    /\ LoopIdle

\* The host appends a block to the segment.
XAddBlock ==
    /\ xpc = "build"
    /\ Len(xshapes) < MaxBlocks
    /\ xshapes' = Append(xshapes, <<>>)
    /\ UNCHANGED <<xtarget, xevents, xpc, loopvars>>

\* The host appends a transaction to the last block, with or without receipt.
XAddTx ==
    /\ xpc = "build"
    /\ xshapes # <<>>
    /\ TotalTxs(xshapes) < MaxTxs
    /\ \E r \in {NoneV, Some(<<>>)} :
          xshapes' = [xshapes EXCEPT ![Len(xshapes)] = Append(@, r)]
    /\ UNCHANGED <<xtarget, xevents, xpc, loopvars>>

\* The last transaction emits one more log.
XAddLog ==
    /\ xpc = "build"
    /\ xshapes # <<>>
    /\ xshapes[Len(xshapes)] # <<>>
    /\ TotalLogs(xshapes) < MaxLogs
    /\ LET b == Len(xshapes)
           t == Len(xshapes[b])
       IN  /\ xshapes[b][t].some
           /\ \E a \in Addresses, tp \in LogTopics :
                 xshapes' = [xshapes EXCEPT ![b][t] = Some(Append(@.val, <<a, tp>>))]
    /\ UNCHANGED <<xtarget, xevents, xpc, loopvars>>

\* decode_chain_into_rollup_events(chain) with COUNTER_CONTRACT_ADDRESS = xtarget.
XExtract ==
    /\ xpc = "build"
    /\ xshapes # <<>>
    /\ xevents' = decode_chain_into_rollup_events(xchain, xtarget)
    /\ xpc' = "done"
    /\ UNCHANGED <<xshapes, xtarget, loopvars>>

XNext == XAddBlock \/ XAddTx \/ XAddLog \/ XExtract

SpecExtract == XInit /\ [][XNext]_vars

\* ------------------------------------------------ Spec: the exex loop

\* Spec: the stream yields at most MaxNotifs notifications, each of segments
\* of at most StreamBlocks blocks.
MaxNotifs == 2
StreamBlocks == 2

\* The blocks of the stream's segments: one transaction whose receipt holds
\* one decodable log, of another contract (no event) or of the Counter
\* contract (one event).
StreamBlockShapes ==
    {<<Some(<<<<OtherAddress, <<IncrementedSig>>>>>>)>>,
     <<Some(<<<<CounterAddress, <<IncrementedSig>>>>>>)>>}

RECURSIVE SeqsOfLen(_, _)
SeqsOfLen(S, n) ==
    IF n = 0 THEN {<<>>}
    ELSE {Append(q, x) : q \in SeqsOfLen(S, n - 1), x \in S}

StreamChainsOn(fork) ==
    {MkChain(1, fork, shapes) :
        shapes \in UNION {SeqsOfLen(StreamBlockShapes, n) : n \in 1..StreamBlocks}}

StreamChains == UNION {StreamChainsOn(f) : f \in Forks}

\* ExExNotification
ChainCommitted(new) == [kind |-> "ChainCommitted", new |-> new]
ChainReorged(old, new) == [kind |-> "ChainReorged", old |-> old, new |-> new]
ChainReverted(old) == [kind |-> "ChainReverted", old |-> old]
NoNotification == [kind |-> "none"]

\* What the host may send: a commit or a revert of a segment of either
\* fork, or a reorg from a segment of fork "a" to a segment of fork "b".
Notifications ==
    {ChainCommitted(c) : c \in StreamChains}
    \cup {ChainReverted(c) : c \in StreamChains}
    \cup {ChainReorged(o, n) : o \in StreamChainsOn("a"), n \in StreamChainsOn("b")}

\* committed_chain that also yields the new chain of a reorg.
committed_chain_WithReorg(n) ==
    IF n.kind \in {"ChainCommitted", "ChainReorged"} THEN Some(n.new) ELSE NoneV

\* committed_chain that also yields the chain of a revert.
committed_chain_WithRevert(n) ==
    CASE n.kind = "ChainCommitted" -> Some(n.new)
      [] n.kind = "ChainReverted" -> Some(n.old)
      [] OTHER -> NoneV

\* ExExNotification::committed_chain: the chain a notification commits.
committed_chain(n) ==
    IF n.kind = "ChainCommitted" THEN Some(n.new) ELSE NoneV

\* The environment variables the program reads.
EnvVars == {"COUNTER_CONTRACT_ADDRESS", "L1_RPC_ADDRESS",
            "STATE_ROOT_CONTRACT_ADDRESS", "PREFUNDED_SECRET"}
L1Vars == EnvVars \ {"COUNTER_CONTRACT_ADDRESS"}

\* A value that parses, and one that does not.
GoodValue(v) == IF v = "COUNTER_CONTRACT_ADDRESS" THEN CounterAddress ELSE "good"
Malformed == "malformed"

CompleteEnv == [v \in EnvVars |-> Some(GoodValue(v))]

\* The environments the process is started with: the complete one, one
\* with a single variable unset or malformed, one with no L1 variable.
EnvConfigs ==
    {CompleteEnv}
    \cup {[CompleteEnv EXCEPT ![v] = NoneV] : v \in EnvVars}
    \cup {[CompleteEnv EXCEPT ![v] = Some(Malformed)] : v \in EnvVars}
    \cup {[v \in EnvVars |-> IF v \in L1Vars THEN NoneV ELSE CompleteEnv[v]]}

\* std::env::var(v).expect(..) followed by from_str(..).unwrap() /
\* Http::new(..).unwrap(): whether the value is there and parses.
EnvUsable(e, v) == e[v].some /\ e[v].val # Malformed

Init ==
    /\ env \in EnvConfigs
    /\ pc = "next"
    /\ notification = NoNotification
    /\ events = <<>>
    /\ calls = <<>>
    /\ acks = <<>>
    /\ commits = <<>>
    /\ acksThis = 0
    /\ ackFailed = FALSE
    /\ nDelivered = 0
    /\ nFinished = 0
    /\ nCalls = 0
    /\ xshapes = <<>>
    /\ xtarget = CounterAddress
    /\ xevents = <<>>
    /\ xpc = "off"

\* StreamNext calling notify_l1 for the new chain of a reorg as well.
StreamNext_NotifiesReorg ==
    /\ pc = "next"
    /\ nDelivered < MaxNotifs
    /\ \E n \in Notifications :
        /\ notification' = n
        /\ nDelivered' = nDelivered + 1
        /\ calls' = <<>>
        /\ acksThis' = 0
        /\ commits' = IF n.kind = "ChainCommitted"
                      THEN Append(commits, num_hash(tip(n.new)))
                      ELSE commits
        /\ IF n.kind \in {"ChainCommitted", "ChainReorged"}
           THEN IF EnvUsable(env, "COUNTER_CONTRACT_ADDRESS")
                THEN /\ events' = decode_chain_into_rollup_events(
                                      n.new, env["COUNTER_CONTRACT_ADDRESS"].val)
                     /\ pc' = IF events' = <<>> THEN "ack" ELSE "l1_call"
                ELSE /\ events' = <<>>
                     /\ pc' = "panic"
           ELSE /\ events' = <<>>
                /\ pc' = "ack"
    /\ UNCHANGED <<env, acks, ackFailed, nFinished, nCalls, xvars>>

\* StreamNext falling back to a default address (that of no contract) when
\* COUNTER_CONTRACT_ADDRESS is unset or does not parse.
StreamNext_DefaultAddress ==
    /\ pc = "next"
    /\ nDelivered < MaxNotifs
    /\ \E n \in Notifications :
        /\ notification' = n
        /\ nDelivered' = nDelivered + 1
        /\ calls' = <<>>
        /\ acksThis' = 0
        /\ commits' = IF n.kind = "ChainCommitted"
                      THEN Append(commits, num_hash(tip(n.new)))
                      ELSE commits
        /\ IF n.kind = "ChainCommitted"
           THEN /\ events' = decode_chain_into_rollup_events(
                                 n.new,
                                 IF EnvUsable(env, "COUNTER_CONTRACT_ADDRESS")
                                 THEN env["COUNTER_CONTRACT_ADDRESS"].val
                                 ELSE "0x00")
                /\ pc' = IF events' = <<>> THEN "ack" ELSE "l1_call"
           ELSE /\ events' = <<>>
                /\ pc' = "ack"
    /\ UNCHANGED <<env, acks, ackFailed, nFinished, nCalls, xvars>>

\* StreamNext with notify_l1 reading the L1 configuration before its for
\* loop, so for every commit.
StreamNext_EagerL1Config ==
    /\ pc = "next"
    /\ nDelivered < MaxNotifs
    /\ \E n \in Notifications :
        /\ notification' = n
        /\ nDelivered' = nDelivered + 1
        /\ calls' = <<>>
        /\ acksThis' = 0
        /\ commits' = IF n.kind = "ChainCommitted"
                      THEN Append(commits, num_hash(tip(n.new)))
                      ELSE commits
        /\ IF n.kind = "ChainCommitted"
           THEN IF \A v \in EnvVars : EnvUsable(env, v)
                THEN /\ events' = decode_chain_into_rollup_events(
                                      n.new, env["COUNTER_CONTRACT_ADDRESS"].val)
                     /\ pc' = IF events' = <<>> THEN "ack" ELSE "l1_call"
                ELSE /\ events' = <<>>
                     /\ pc' = "panic"
           ELSE /\ events' = <<>>
                /\ pc' = "ack"
    /\ UNCHANGED <<env, acks, ackFailed, nFinished, nCalls, xvars>>

\* exex, lines 80-93: ctx.notifications.next() yields Some(n); the match arm
\* runs up to its first suspension. A commit calls notify_l1, which extracts
\* the events (and panics without a usable COUNTER_CONTRACT_ADDRESS).
StreamNext ==
    /\ pc = "next"
    /\ nDelivered < MaxNotifs
    /\ \E n \in Notifications :
        /\ notification' = n
        /\ nDelivered' = nDelivered + 1
        /\ calls' = <<>>
        /\ acksThis' = 0
        /\ commits' = IF n.kind = "ChainCommitted"
                      THEN Append(commits, num_hash(tip(n.new)))
                      ELSE commits
        /\ IF n.kind = "ChainCommitted"
           THEN IF EnvUsable(env, "COUNTER_CONTRACT_ADDRESS")
                THEN /\ events' = decode_chain_into_rollup_events(
                                      n.new, env["COUNTER_CONTRACT_ADDRESS"].val)
                     /\ pc' = IF events' = <<>> THEN "ack" ELSE "l1_call"
                ELSE /\ events' = <<>>
                     /\ pc' = "panic"
           ELSE /\ events' = <<>>
                /\ pc' = "ack"
    /\ UNCHANGED <<env, acks, ackFailed, nFinished, nCalls, xvars>>

\* StreamEnd reporting the end of the stream as an error.
StreamEnd_AsError ==
    /\ pc = "next"
    /\ pc' = "error"
    /\ UNCHANGED <<env, notification, events, calls, acks, commits, acksThis,
                   ackFailed, nDelivered, nFinished, nCalls, xvars>>

\* exex, lines 80 and 100: the stream is exhausted, the loop returns Ok(()).
StreamEnd ==
    /\ pc = "next"
    /\ pc' = "done"
    /\ UNCHANGED <<env, notification, events, calls, acks, commits, acksThis,
                   ackFailed, nDelivered, nFinished, nCalls, xvars>>

\* StateRootContract::update_state_root: the signed changeStateRoot call.
update_state_root(state_root) ==
    [method |-> "changeStateRoot", state_root |-> state_root, result |-> "pending"]

\* L1Submit not awaiting the call: it goes on to the next event at once.
L1Submit_NotAwaited ==
    /\ pc = "l1_call"
    /\ IF \A v \in L1Vars : EnvUsable(env, v)
       THEN /\ calls' = Append(calls, update_state_root(tip(notification.new).state_root))
            /\ nCalls' = nCalls + 1
            /\ events' = Tail(events)
            /\ pc' = IF events' = <<>> THEN "ack" ELSE "l1_call"
       ELSE /\ pc' = "panic"
            /\ UNCHANGED <<calls, nCalls, events>>
    /\ UNCHANGED <<env, notification, acks, commits, acksThis, ackFailed,
                   nDelivered, nFinished, xvars>>

\* L1Submit sending the state root of the block that emitted the event.
L1Submit_EventBlockRoot ==
    /\ pc = "l1_call"
    /\ IF \A v \in L1Vars : EnvUsable(env, v)
       THEN /\ calls' = Append(calls, update_state_root(Head(events).block.state_root))
            /\ nCalls' = nCalls + 1
            /\ pc' = "l1_await"
       ELSE /\ pc' = "panic"
            /\ UNCHANGED <<calls, nCalls>>
    /\ UNCHANGED <<env, notification, events, acks, commits, acksThis, ackFailed,
                   nDelivered, nFinished, xvars>>

\* notify_l1, lines 144-164: for the next event, read the L1 configuration
\* (panicking when a value is unset or does not parse) and issue the call
\* with the state root of the segment's tip.
L1Submit ==
    /\ pc = "l1_call"
    /\ IF \A v \in L1Vars : EnvUsable(env, v)
       THEN /\ calls' = Append(calls, update_state_root(tip(notification.new).state_root))
            /\ nCalls' = nCalls + 1
            /\ pc' = "l1_await"
       ELSE /\ pc' = "panic"
            /\ UNCHANGED <<calls, nCalls>>
    /\ UNCHANGED <<env, notification, events, acks, commits, acksThis, ackFailed,
                   nDelivered, nFinished, xvars>>

\* L1Return propagating the error of a failed call out of the loop.
L1Return_AbortsOnErr ==
    /\ pc = "l1_await"
    /\ \E result \in {"Ok", "Err"} :
          /\ calls' = [calls EXCEPT ![Len(calls)].result = result]
          /\ events' = Tail(events)
          /\ pc' = IF result = "Err" THEN "error"
                   ELSE IF events' = <<>> THEN "ack" ELSE "l1_call"
    /\ UNCHANGED <<env, notification, acks, commits, acksThis, ackFailed,
                   nDelivered, nFinished, nCalls, xvars>>

\* L1Return submitting again for the same event after a failed call.
L1Return_RetriesOnErr ==
    /\ pc = "l1_await"
    /\ \E result \in {"Ok", "Err"} :
          /\ calls' = [calls EXCEPT ![Len(calls)].result = result]
          /\ events' = IF result = "Err" THEN events ELSE Tail(events)
    /\ pc' = IF events' = <<>> THEN "ack" ELSE "l1_call"
    /\ UNCHANGED <<env, notification, acks, commits, acksThis, ackFailed,
                   nDelivered, nFinished, nCalls, xvars>>

\* L1Return leaving the for loop after the first call has returned.
L1Return_BreaksAfterFirst ==
    /\ pc = "l1_await"
    /\ \E result \in {"Ok", "Err"} :
          calls' = [calls EXCEPT ![Len(calls)].result = result]
    /\ pc' = "ack"
    /\ UNCHANGED <<env, notification, events, acks, commits, acksThis, ackFailed,
                   nDelivered, nFinished, nCalls, xvars>>

\* L1Return with a timeout: the loop may go on while the call is pending.
L1Return_TimesOut ==
    /\ pc = "l1_await"
    /\ \E result \in {"Ok", "Err", "pending"} :
          calls' = [calls EXCEPT ![Len(calls)].result = result]
    /\ events' = Tail(events)
    /\ pc' = IF events' = <<>> THEN "ack" ELSE "l1_call"
    /\ UNCHANGED <<env, notification, acks, commits, acksThis, ackFailed,
                   nDelivered, nFinished, nCalls, xvars>>

\* notify_l1, lines 166-174: the call returns Ok(id) or Err(error); either
\* is logged and the for loop goes on to the next event.
L1Return ==
    /\ pc = "l1_await"
    /\ \E result \in {"Ok", "Err"} :
          calls' = [calls EXCEPT ![Len(calls)].result = result]
    /\ events' = Tail(events)
    /\ pc' = IF events' = <<>> THEN "ack" ELSE "l1_call"
    /\ UNCHANGED <<env, notification, acks, commits, acksThis, ackFailed,
                   nDelivered, nFinished, nCalls, xvars>>

\* Ack sending the first block of the committed chain instead of its tip.
Ack_FirstBlock ==
    /\ pc = "ack"
    /\ LET committed == committed_chain(notification)
       IN  IF committed.some
           THEN \E delivered \in BOOLEAN :
                   IF delivered
                   THEN /\ acks' = Append(acks, num_hash(committed.val.blocks[1]))
                        /\ acksThis' = acksThis + 1
                        /\ nFinished' = nFinished + 1
                        /\ pc' = "next"
                        /\ UNCHANGED ackFailed
                   ELSE /\ ackFailed' = TRUE
                        /\ pc' = "error"
                        /\ UNCHANGED <<acks, acksThis, nFinished>>
           ELSE /\ nFinished' = nFinished + 1
                /\ pc' = "next"
                /\ UNCHANGED <<acks, acksThis, ackFailed>>
    /\ UNCHANGED <<env, notification, events, calls, commits, nDelivered, nCalls,
                   xvars>>

\* Ack dropping the result of the send instead of returning its error.
Ack_IgnoresSendError ==
    /\ pc = "ack"
    /\ LET committed == committed_chain(notification)
       IN  IF committed.some
           THEN \E delivered \in BOOLEAN :
                   IF delivered
                   THEN /\ acks' = Append(acks, num_hash(tip(committed.val)))
                        /\ acksThis' = acksThis + 1
                        /\ UNCHANGED ackFailed
                   ELSE /\ ackFailed' = TRUE
                        /\ UNCHANGED <<acks, acksThis>>
           ELSE UNCHANGED <<acks, acksThis, ackFailed>>
    /\ nFinished' = nFinished + 1
    /\ pc' = "next"
    /\ UNCHANGED <<env, notification, events, calls, commits, nDelivered, nCalls,
                   xvars>>

\* Ack sending the FinishedHeight of a committed chain twice.
Ack_SendsTwice ==
    /\ pc = "ack"
    /\ LET committed == committed_chain(notification)
       IN  IF committed.some
           THEN \E delivered \in BOOLEAN :
                   IF delivered
                   THEN /\ acks' = acks \o <<num_hash(tip(committed.val)),
                                             num_hash(tip(committed.val))>>
                        /\ acksThis' = acksThis + 2
                        /\ nFinished' = nFinished + 1
                        /\ pc' = "next"
                        /\ UNCHANGED ackFailed
                   ELSE /\ ackFailed' = TRUE
                        /\ pc' = "error"
                        /\ UNCHANGED <<acks, acksThis, nFinished>>
           ELSE /\ nFinished' = nFinished + 1
                /\ pc' = "next"
                /\ UNCHANGED <<acks, acksThis, ackFailed>>
    /\ UNCHANGED <<env, notification, events, calls, commits, nDelivered, nCalls,
                   xvars>>

\* exex, lines 95-97: send FinishedHeight for the committed chain's tip, if
\* the notification has a committed chain; a failed send ends the loop.
Ack ==
    /\ pc = "ack"
    /\ LET committed == committed_chain(notification)
       IN  IF committed.some
           THEN \E delivered \in BOOLEAN :
                   IF delivered
                   THEN /\ acks' = Append(acks, num_hash(tip(committed.val)))
                        /\ acksThis' = acksThis + 1
                        /\ nFinished' = nFinished + 1
                        /\ pc' = "next"
                        /\ UNCHANGED ackFailed
                   ELSE /\ ackFailed' = TRUE
                        /\ pc' = "error"
                        /\ UNCHANGED <<acks, acksThis, nFinished>>
           ELSE /\ nFinished' = nFinished + 1
                /\ pc' = "next"
                /\ UNCHANGED <<acks, acksThis, ackFailed>>
    /\ UNCHANGED <<env, notification, events, calls, commits, nDelivered, nCalls,
                   xvars>>

Next == StreamNext \/ StreamEnd \/ L1Submit \/ L1Return \/ Ack

Spec == Init /\ [][Next]_vars

\* The loop started with the complete configuration.
FairInit == Init /\ env = CompleteEnv

\* FairSpec: the configuration is complete, the runtime keeps polling the
\* task, every call to L1 returns, and the host closes the stream unless it
\* yields another notification (at most MaxNotifs in all).
FairSpec ==
    /\ FairInit
    /\ [][Next]_vars
    /\ WF_vars(StreamEnd)
    /\ WF_vars(L1Submit)
    /\ WF_vars(L1Return)
    /\ WF_vars(Ack)

\* ---------------------------------------------------------------- claims

Last(q) == q[Len(q)]

\* The tip of a segment, read off its blocks.
TipNumHash(chain) ==
    [number |-> chain.blocks[Len(chain.blocks)].number,
     hash |-> chain.blocks[Len(chain.blocks)].hash]

\* The places <<block, transaction, log>> (positions in the segment) of the
\* logs of a segment.
LogPlaces(chain) ==
    UNION {UNION {{<<b, t, j>> : j \in (IF chain.receipts[b][t].some
                                        THEN DOMAIN chain.receipts[b][t].val.logs
                                        ELSE {})} :
                  t \in DOMAIN chain.receipts[b]} :
           b \in DOMAIN chain.receipts}

LogAt(chain, d) == chain.receipts[d[1]][d[2]].val.logs[d[3]]

\* The logs of a segment that the contract at `target` emitted and that
\* carry the Incremented signature.
MatchingLogs(chain, target) ==
    {d \in LogPlaces(chain) :
        /\ LogAt(chain, d).address = target
        /\ LogAt(chain, d).topics # <<>>
        /\ LogAt(chain, d).topics[1] = IncrementedSig}

HasErr(cs) == \E i \in DOMAIN cs : cs[i].result = "Err"
HasOk(cs) == \E i \in DOMAIN cs : cs[i].result = "Ok"

\* C1: once the loop has processed a ChainCommitted notification, exactly
\* one FinishedHeight has been delivered for it, carrying the number and
\* hash of the tip of its segment, whatever the events and whatever the
\* results of the L1 calls; none is delivered before that.
C1_OneAckForCommitTip ==
    notification.kind = "ChainCommitted" =>
        /\ acksThis <= 1
        /\ pc \in {"next", "done"} =>
              /\ acksThis = 1
              /\ acks # <<>>
              /\ Last(acks) = TipNumHash(notification.new)
        /\ pc \notin {"next", "done"} => acksThis = 0

C1_Witness ==
    /\ pc = "next"
    /\ notification.kind = "ChainCommitted"
    /\ Len(notification.new.blocks) = 2
    /\ Len(calls) = 2 /\ HasErr(calls) /\ HasOk(calls)
    /\ acksThis = 1
    /\ Last(acks) = TipNumHash(notification.new)

C3_RevertNoAck ==
    /\ [][notification'.kind = "ChainReverted" => acks' = acks]_vars
    /\ [](notification.kind = "ChainReverted" => acksThis = 0)

C3_Witness ==
    /\ pc = "next"
    /\ notification.kind = "ChainReverted"
    /\ nFinished = 2
    /\ Len(acks) = 1

\* C4: a call to L1 that returns an error makes the loop go on with the
\* remaining events of the segment; the loop does not panic afterwards and
\* ends with an error only when the FinishedHeight cannot be delivered; when
\* the notification is done the FinishedHeight of the segment's tip has been
\* delivered and the loop is ready to take the next notification.
C4_L1ErrorContinues ==
    /\ [][(pc = "l1_await" /\ Last(calls').result = "Err") =>
              /\ events' = Tail(events)
              /\ pc' = IF Tail(events) = <<>> THEN "ack" ELSE "l1_call"]_vars
    /\ [](HasErr(calls) =>
              /\ pc # "panic"
              /\ pc = "error" => ackFailed
              /\ pc = "ack" => ENABLED Ack
              /\ pc \in {"next", "done"} =>
                    /\ acksThis = 1
                    /\ Last(acks) = TipNumHash(notification.new)
              /\ (pc = "next" /\ nDelivered < MaxNotifs) => ENABLED StreamNext)

C4_Witness ==
    /\ pc = "next"
    /\ nDelivered < MaxNotifs
    /\ calls # <<>> /\ calls[1].result = "Err"
    /\ Len(calls) = 2
    /\ acksThis = 1

\* C5: while a ChainCommitted notification is processed, the calls issued
\* and the events still to handle add up to the matching logs of its
\* segment; when it is done, also when the FinishedHeight could not be
\* delivered, the calls issued are as many as those logs (none when there
\* is no such log), and the FinishedHeight is delivered all the same.
C5_OneCallPerEvent ==
    (notification.kind = "ChainCommitted" /\ pc # "panic") =>
        LET expected == Cardinality(MatchingLogs(notification.new, CounterAddress))
        IN  /\ pc = "l1_call" => Len(calls) + Len(events) = expected
            /\ pc = "l1_await" => Len(calls) + Len(events) = expected + 1
            /\ pc \in {"ack", "next", "done", "error"} => Len(calls) = expected
            /\ pc \in {"next", "done"} => acksThis = 1

C5_Witness ==
    /\ pc = "next"
    /\ notification.kind = "ChainCommitted"
    /\ Cardinality(MatchingLogs(notification.new, CounterAddress)) = 2
    /\ Len(calls) = 2
    /\ calls[1].result = "Err"
    /\ acksThis = 1

\* C6: a send of FinishedHeight that fails ends the loop with an error, and
\* from then on no notification is taken, no call to L1 is issued and no
\* FinishedHeight is delivered.
C6_AckFailureIsFatal ==
    [][/\ ackFailed' => pc' = "error"
       /\ ackFailed => /\ nDelivered' = nDelivered
                       /\ nCalls' = nCalls
                       /\ acks' = acks]_vars

C6_Witness ==
    /\ ackFailed
    /\ pc = "error"
    /\ nDelivered < MaxNotifs
    /\ notification.kind = "ChainCommitted"
    /\ acks = <<>>

\* C7: started with the complete configuration, with every call to L1
\* returning and the stream ending (FairSpec), and with every FinishedHeight
\* delivered, the loop eventually returns Ok(()) with every notification the
\* stream yielded processed, each one once.
C7_Terminates ==
    [](~ackFailed) =>
        /\ <>(pc = "done" /\ nFinished = nDelivered)
        /\ [](nFinished <= nDelivered /\ nDelivered <= nFinished + 1)

C7_Witness ==
    /\ pc = "done"
    /\ env = CompleteEnv
    /\ nDelivered = MaxNotifs
    /\ nFinished = MaxNotifs
    /\ HasErr(calls)
    /\ Len(acks) = 1

\* C8: every extracted triple carries the transaction that emitted its log
\* (the event's data names the emitting transaction).
C8_TxEmittedLog ==
    xpc = "done" =>
        \A i \in DOMAIN xevents :
            xevents[i].tx = Tx(xevents[i].event.data[1], xevents[i].event.data[2])

\* C9: no extracted event comes from a log whose address differs from the
\* target address, whatever the log's topics.
C9_OnlyTargetAddress ==
    xpc = "done" =>
        \A i \in DOMAIN xevents :
            /\ xevents[i].event.data \in LogPlaces(xchain)
            /\ LogAt(xchain, xevents[i].event.data).address = xtarget

C9_Witness ==
    /\ xpc = "done"
    /\ xevents # <<>>
    /\ \E d \in LogPlaces(xchain) :
          /\ LogAt(xchain, d).address # xtarget
          /\ LogAt(xchain, d).topics = <<IncrementedSig>>

\* C10: the extracted events are exactly the logs of the segment that the
\* target contract emitted and that decode, one event per such log; a log
\* of the target contract that does not decode drops out alone.
C10_ExactlyDecodable ==
    xpc = "done" =>
        /\ {xevents[i].event.data : i \in DOMAIN xevents} = MatchingLogs(xchain, xtarget)
        /\ Len(xevents) = Cardinality(MatchingLogs(xchain, xtarget))

C10_Witness ==
    /\ xpc = "done"
    /\ Len(xevents) = 2
    /\ \E d \in LogPlaces(xchain) :
          /\ LogAt(xchain, d).address = xtarget
          /\ LogAt(xchain, d).topics # <<IncrementedSig>>
          /\ \E i, j \in DOMAIN xevents :
                /\ xevents[i].event.data = <<d[1], d[2], d[3] - 1>>
                /\ xevents[j].event.data = <<d[1], d[2], d[3] + 1>>

\* <<b1, t1, j1>> comes before <<b2, t2, j2>>: earlier block, or same block
\* and earlier transaction, or same transaction and earlier log.
PlaceBefore(d, e) ==
    \/ d[1] < e[1]
    \/ d[1] = e[1] /\ d[2] < e[2]
    \/ d[1] = e[1] /\ d[2] = e[2] /\ d[3] < e[3]

\* C11: the extracted events come in the order of their logs in the
\* segment: by block, then by emitting transaction, then by position in the
\* receipt; the block a triple carries is the block of its log, so every
\* event of an earlier block precedes every event of a later block.
C11_OrderPreserved ==
    xpc = "done" =>
        /\ \A i \in DOMAIN xevents :
              xevents[i].block = xchain.blocks[xevents[i].event.data[1]]
        /\ \A i, j \in DOMAIN xevents :
              i < j => /\ PlaceBefore(xevents[i].event.data, xevents[j].event.data)
                       /\ xevents[i].block.number <= xevents[j].block.number

C11_Witness ==
    /\ xpc = "done"
    /\ Len(xevents) = 3
    /\ xevents[1].event.data = <<1, 1, 1>>
    /\ xevents[2].event.data = <<1, 1, 2>>
    /\ xevents[3].event.data = <<2, 1, 1>>

\* The calls of cs that have not returned.
Pending(cs) == {i \in DOMAIN cs : cs[i].result = "pending"}

CounterUsable == EnvUsable(env, "COUNTER_CONTRACT_ADDRESS")
L1Usable == \A v \in L1Vars : EnvUsable(env, v)

\* C12: a step that leaves a ChainReorged or ChainReverted notification as
\* the current one extracts nothing (it does not even read
\* COUNTER_CONTRACT_ADDRESS, so it cannot panic), issues no call to L1, and
\* leaves the loop at its acknowledgement step or back at the stream.
C12_ReorgRevertNoL1 ==
    [][notification'.kind \in {"ChainReorged", "ChainReverted"} =>
          /\ events' = <<>>
          /\ calls' = <<>>
          /\ nCalls' = nCalls
          /\ pc' \in {"ack", "next", "done"}]_vars

C12_Witness ==
    /\ pc = "next"
    /\ notification.kind = "ChainReorged"
    /\ MatchingLogs(notification.old, CounterAddress) # {}
    /\ MatchingLogs(notification.new, CounterAddress) # {}
    /\ ~CounterUsable
    /\ nFinished = 1
    /\ nDelivered < MaxNotifs
    /\ nCalls = 0

\* C13: without a usable COUNTER_CONTRACT_ADDRESS the loop panics as soon
\* as it receives a ChainCommitted notification: no call to L1 is ever
\* issued, no FinishedHeight is ever delivered, and nothing happens after
\* the panic.
C13_MissingCounterAddressFatal ==
    /\ [](~CounterUsable =>
              /\ nCalls = 0
              /\ acks = <<>>
              /\ notification.kind = "ChainCommitted" => pc = "panic")
    /\ [][pc = "panic" => /\ pc' = "panic"
                          /\ nDelivered' = nDelivered
                          /\ nCalls' = nCalls
                          /\ acks' = acks]_vars

C13_Witness ==
    /\ pc = "panic"
    /\ ~env["COUNTER_CONTRACT_ADDRESS"].some
    /\ notification.kind = "ChainCommitted"
    /\ MatchingLogs(notification.new, CounterAddress) # {}
    /\ nDelivered = 2
    /\ nFinished = 1

\* C14: a step that delivers a FinishedHeight starts in a state where every
\* extracted event of the segment has had its call issued and every call
\* has returned.
C14_AckAfterAllCalls ==
    [][acks' # acks =>
          /\ events = <<>>
          /\ Pending(calls) = {}
          /\ Len(calls) = Cardinality(MatchingLogs(notification.new, CounterAddress))]_vars

C14_Witness ==
    /\ pc = "ack"
    /\ notification.kind = "ChainCommitted"
    /\ Len(calls) = 2
    /\ Pending(calls) = {}
    /\ events = <<>>

\* C15: at most one call to L1 is pending, and only while the loop awaits
\* it; a call is issued only when none is pending; at most one notification
\* is unfinished, and the next one is taken only when the current one is
\* finished, with no event left and no call pending.
C15_OneAtATime ==
    /\ [](/\ Cardinality(Pending(calls)) <= 1
          /\ Pending(calls) # {} => (pc = "l1_await" /\ Pending(calls) = {Len(calls)})
          /\ nFinished <= nDelivered
          /\ nDelivered <= nFinished + 1)
    /\ [][/\ Len(calls') > Len(calls) => Pending(calls) = {}
          /\ nDelivered' # nDelivered =>
                /\ nFinished = nDelivered
                /\ Pending(calls) = {}
                /\ events = <<>>]_vars

C15_Witness ==
    /\ pc = "l1_await"
    /\ Len(calls) = 2
    /\ Pending(calls) = {2}
    /\ nDelivered = 2
    /\ nFinished = 1

\* C16: every call to L1 issued for the current notification is
\* changeStateRoot with the state root of the last block of its segment.
C16_TipStateRoot ==
    \A i \in DOMAIN calls :
        /\ calls[i].method = "changeStateRoot"
        /\ calls[i].state_root =
              notification.new.blocks[Len(notification.new.blocks)].state_root

C16_Witness ==
    /\ pc = "l1_await"
    /\ Len(notification.new.blocks) = 2
    /\ MatchingLogs(notification.new, CounterAddress) = {<<1, 1, 1>>}
    /\ calls[1].state_root # notification.new.blocks[1].state_root
    /\ Len(commits) = 2
    /\ commits[1] # commits[2]

\* C17: while the loop awaits a call to L1, the only step it can take is
\* the return of that call: until then no FinishedHeight is delivered, no
\* notification is taken and no other call is issued.
C17_BlockedOnPendingCall ==
    [][pc = "l1_await" =>
          /\ Last(calls).result = "pending"
          /\ Last(calls').result # "pending"
          /\ Len(calls') = Len(calls)
          /\ acks' = acks
          /\ nDelivered' = nDelivered]_vars

C17_Witness ==
    /\ pc = "l1_await"
    /\ Len(calls) = 1
    /\ Last(calls).result = "pending"
    /\ acksThis = 0
    /\ nDelivered < MaxNotifs

\* C18: with COUNTER_CONTRACT_ADDRESS usable and some L1 variable unset or
\* malformed, no call to L1 is ever issued; reorgs, reverts and commits
\* without matching log are processed as usual (the commit acknowledged);
\* the loop panics exactly at a commit with a matching log, before its
\* FinishedHeight.
C18_L1ConfigOnFirstEvent ==
    (CounterUsable /\ ~L1Usable) =>
        /\ nCalls = 0
        /\ calls = <<>>
        /\ pc = "panic" =>
              /\ notification.kind = "ChainCommitted"
              /\ MatchingLogs(notification.new, CounterAddress) # {}
              /\ acksThis = 0
        /\ (notification.kind = "ChainCommitted"
              /\ MatchingLogs(notification.new, CounterAddress) # {}) =>
              pc \in {"l1_call", "panic"}
        /\ (notification.kind = "ChainCommitted"
              /\ MatchingLogs(notification.new, CounterAddress) = {}) =>
              /\ pc \in {"ack", "next", "done", "error"}
              /\ pc \in {"next", "done"} => acksThis = 1
        /\ notification.kind \in {"ChainReorged", "ChainReverted"} =>
              pc \in {"ack", "next", "done"}

C18_Witness ==
    /\ pc = "panic"
    /\ \A v \in L1Vars : ~env[v].some
    /\ CounterUsable
    /\ nDelivered = 2
    /\ nFinished = 1
    /\ Len(acks) = 1
    /\ notification.kind = "ChainCommitted"

====
